---- MODULE Spec2Model ----
(***************************************************************************)
(* Classical ciphers of the repository (cesar.cpp, vigenere.cpp, aes.cpp): *)
(* modInverse, the Caesar, Affine, Vigenere and 2x2 Hill ciphers.          *)
(*                                                                         *)
(* A C string is a sequence of character codes (the terminating NUL is     *)
(* implicit).  A call is modelled by the record it leaves behind: the      *)
(* returned pointer (NULL or a string), the message written to stderr, and *)
(* the buffers it allocated and freed.                                     *)
(***************************************************************************)
EXTENDS Integers, Sequences, FiniteSets

\* cipher:  which program is running ("modInverse", "cesar", "affine", "vigenere", "hill")
\* text:    the caller's input string
\* key:     the caller's key (an int, a pair <<a, b>>, a key string or a 2x2 matrix)
\* pc:      "start", "encrypted", "decrypted" (of the encrypted string),
\*          "decryptedInput" (decrypt called on the caller's string), "done"
\* enc:     what the encrypt call left behind
\* dec:     what the decrypt call left behind
\* inverse: modInverse's return value (0: not called yet)
\* ic:      calculate_ic's return value, the double num / den (den = 0: not called yet)
VARIABLES cipher, text, key, pc, enc, dec, inverse, ic

vars == <<cipher, text, key, pc, enc, dec, inverse, ic>>

(***************************************************************************)
(* C arithmetic and <ctype.h>                                              *)
(***************************************************************************)
ALPHABET_SIZE == 26

INT_MAX == 2147483647

INT_MIN == -INT_MAX - 1

ChA == 65

ChZ == 90

Cha == 97

Chz == 122

ChX == 88

\* C's % on int: the remainder has the sign of the dividend (truncated division).
CRem(a, m) ==
    LET r == a % m
    IN  IF a < 0 /\ r # 0 THEN r - m ELSE r

isupper(c) == c >= ChA /\ c <= ChZ

islower(c) == c >= Cha /\ c <= Chz

isalpha(c) == isupper(c) \/ islower(c)

toupper(c) == IF islower(c) THEN c - (Cha - ChA) ELSE c

\* Unary minus on an int.  -INT_MIN is not representable: signed overflow is
\* undefined behaviour; a build either wraps (the result is INT_MIN again) or
\* traps (-ftrapv, sanitizers).  Every other value negates exactly.
Negate(x) ==
    IF x = INT_MIN
    THEN {[trap |-> FALSE, val |-> INT_MIN], [trap |-> TRUE, val |-> 0]}
    ELSE {[trap |-> FALSE, val |-> -x]}

(***************************************************************************)
(* What a call leaves behind                                               *)
(***************************************************************************)
NoCall == [null |-> TRUE, str |-> <<>>, err |-> "NotCalled",
           mallocs |-> 0, frees |-> 0, work |-> 0]

\* A returned string: the one buffer still allocated is the result itself.
Returned(s, nmalloc, nfree) ==
    [null |-> FALSE, str |-> s, err |-> "None",
     mallocs |-> nmalloc, frees |-> nfree, work |-> Len(s)]

\* return NULL after an error message e; w characters had been written to a
\* buffer of the call by then.
Failed(e, nmalloc, nfree, w) ==
    [null |-> TRUE, str |-> <<>>, err |-> e,
     mallocs |-> nmalloc, frees |-> nfree, work |-> w]

\* The process was stopped inside the call (a trapped signed overflow).
Aborted == [null |-> TRUE, str |-> <<>>, err |-> "Trap",
            mallocs |-> 0, frees |-> 0, work |-> 0]

(***************************************************************************)
(* aes.cpp: modInverse                                                     *)
(***************************************************************************)
\* The loop returns the first x in 1..m-1 with (a * x) % m == 1, else -1.
modInverse(a, m) ==
    LET a1   == CRem(a, m)
        hits == {x \in 1..(m - 1) : CRem(a1 * x, m) = 1}
    IN  IF hits = {} THEN -1
        ELSE CHOOSE x \in hits : \A y \in hits : x <= y

(***************************************************************************)
(* cesar.cpp                                                               *)
(***************************************************************************)
cesar_char(c, shift) ==
    IF c >= ChA /\ c <= ChZ THEN CRem(c - ChA + shift, 26) + ChA
    ELSE IF c >= Cha /\ c <= Chz THEN CRem(c - Cha + shift, 26) + Cha
    ELSE c

\* avail: how many of the call's malloc requests the allocator will satisfy.
encrypt_cesar(plaintext, shift0, avail) ==
    LET s1    == CRem(shift0, 26)
        shift == IF s1 < 0 THEN s1 + 26 ELSE s1
    IN  IF avail < 1 THEN Failed("AllocationFailure", 0, 0, 0)
        ELSE Returned([i \in 1..Len(plaintext) |-> cesar_char(plaintext[i], shift)], 1, 0)

\* The set of outcomes of decrypt_cesar: encrypt_cesar(ciphertext, -shift).
decrypt_cesar(ciphertext, shift, avail) ==
    {IF n.trap THEN Aborted ELSE encrypt_cesar(ciphertext, n.val, avail) :
        n \in Negate(shift)}

(***************************************************************************)
(* aes.cpp: the affine cipher                                              *)
(***************************************************************************)
affine_encrypt_char(c, a, b) ==
    IF isalpha(c)
    THEN LET base == IF isupper(c) THEN ChA ELSE Cha
             P    == c - base
             C0   == CRem(a * P + b, ALPHABET_SIZE)
             C    == IF C0 < 0 THEN C0 + ALPHABET_SIZE ELSE C0
         IN  C + base
    ELSE c

affine_decrypt_char(c, a_inv, b) ==
    IF isalpha(c)
    THEN LET base == IF isupper(c) THEN ChA ELSE Cha
             C    == c - base
             P0   == a_inv * (C - b)
             P    == CRem(CRem(P0, ALPHABET_SIZE) + ALPHABET_SIZE, ALPHABET_SIZE)
         IN  P + base
    ELSE c

encrypt_affine(plaintext, a, b, avail) ==
    IF modInverse(a, ALPHABET_SIZE) = -1 THEN Failed("InvalidKey", 0, 0, 0)
    ELSE IF avail < 1 THEN Failed("AllocationFailure", 0, 0, 0)
    ELSE Returned([i \in 1..Len(plaintext) |-> affine_encrypt_char(plaintext[i], a, b)], 1, 0)

decrypt_affine(ciphertext, a, b, avail) ==
    LET a_inv == modInverse(a, ALPHABET_SIZE)
    IN  IF a_inv = -1 THEN Failed("InvalidKey", 0, 0, 0)
        ELSE IF avail < 1 THEN Failed("AllocationFailure", 0, 0, 0)
        ELSE Returned([i \in 1..Len(ciphertext) |->
                          affine_decrypt_char(ciphertext[i], a_inv, b)], 1, 0)

(***************************************************************************)
(* vigenere.cpp                                                            *)
(* key_idx is the C index (from 0): key[key_idx] is k[key_idx + 1] here.   *)
(***************************************************************************)
RECURSIVE skip_nonalpha(_, _)
\* while (key_idx < key_len && !isalpha(key[key_idx])) key_idx++;
skip_nonalpha(k, key_idx) ==
    IF key_idx < Len(k) /\ ~isalpha(k[key_idx + 1])
    THEN skip_nonalpha(k, key_idx + 1)
    ELSE key_idx

\* Variant: the search restarts from the start of the key every time, so the
\* first key letter is used for every letter of the text.
key_cursor_restart(k, key_idx) == skip_nonalpha(k, 0)

\* The cursor on the next alphabetic key character, wrapping once to the start
\* of the key; Len(k) when the key has none (the caller then fails).
key_cursor(k, key_idx) ==
    LET k1 == skip_nonalpha(k, key_idx)
    IN  IF k1 = Len(k) THEN skip_nonalpha(k, 0) ELSE k1

vigenere_encrypt_char(c, shift) ==
    LET base == IF isupper(c) THEN ChA ELSE Cha
    IN  CRem(c - base + shift, 26) + base

\* Variant: the "+ 26" that keeps C's % non-negative is left out.
vigenere_decrypt_char_no26(c, shift) ==
    LET base == IF isupper(c) THEN ChA ELSE Cha
    IN  CRem(c - base - shift, 26) + base

vigenere_decrypt_char(c, shift) ==
    LET base == IF isupper(c) THEN ChA ELSE Cha
    IN  CRem(c - base - shift + 26, 26) + base

RECURSIVE encrypt_vigenere_loop(_, _, _, _, _)
\* The for loop from position i (from 1) with the cursor at key_idx; out is
\* ciphertext[0..i-2], already written.
encrypt_vigenere_loop(plaintext, k, i, key_idx, out) ==
    IF i > Len(plaintext) THEN Returned(out, 1, 0)
    ELSE IF isalpha(plaintext[i])
    THEN LET kc == key_cursor(k, key_idx)
         IN  IF kc = Len(k) THEN Failed("InvalidKey", 1, 1, Len(out))
             ELSE encrypt_vigenere_loop(plaintext, k, i + 1, kc + 1,
                      Append(out, vigenere_encrypt_char(plaintext[i],
                                                        toupper(k[kc + 1]) - ChA)))
    ELSE encrypt_vigenere_loop(plaintext, k, i + 1, key_idx, Append(out, plaintext[i]))

\* Variant: the key is validated before the loop, whatever the text is.
encrypt_vigenere_eager(plaintext, k, avail) ==
    IF avail < 1 THEN Failed("AllocationFailure", 0, 0, 0)
    ELSE IF skip_nonalpha(k, 0) = Len(k) THEN Failed("InvalidKey", 1, 1, 0)
    ELSE encrypt_vigenere_loop(plaintext, k, 1, 0, <<>>)

encrypt_vigenere(plaintext, k, avail) ==
    IF avail < 1 THEN Failed("AllocationFailure", 0, 0, 0)
    ELSE encrypt_vigenere_loop(plaintext, k, 1, 0, <<>>)

RECURSIVE decrypt_vigenere_loop(_, _, _, _, _)
decrypt_vigenere_loop(ciphertext, k, i, key_idx, out) ==
    IF i > Len(ciphertext) THEN Returned(out, 1, 0)
    ELSE IF isalpha(ciphertext[i])
    THEN LET kc == key_cursor(k, key_idx)
         IN  IF kc = Len(k) THEN Failed("InvalidKey", 1, 1, Len(out))
             ELSE decrypt_vigenere_loop(ciphertext, k, i + 1, kc + 1,
                      Append(out, vigenere_decrypt_char(ciphertext[i],
                                                        toupper(k[kc + 1]) - ChA)))
    ELSE decrypt_vigenere_loop(ciphertext, k, i + 1, key_idx, Append(out, ciphertext[i]))

decrypt_vigenere(ciphertext, k, avail) ==
    IF avail < 1 THEN Failed("AllocationFailure", 0, 0, 0)
    ELSE decrypt_vigenere_loop(ciphertext, k, 1, 0, <<>>)

(***************************************************************************)
(* aes.cpp: the 2x2 Hill cipher.  key.mat[r][c] is m[r + 1][c + 1].         *)
(***************************************************************************)
RECURSIVE alpha_upper(_)
\* The alphabetic characters of s, in order, through toupper.
alpha_upper(s) ==
    IF s = <<>> THEN <<>>
    ELSE IF isalpha(Head(s)) THEN <<toupper(Head(s))>> \o alpha_upper(Tail(s))
    ELSE alpha_upper(Tail(s))

\* processed_plaintext: the letters in upper case, then 'X' when their number is odd.
processed_plaintext(plaintext) ==
    LET letters == alpha_upper(plaintext)
    IN  IF Len(letters) % 2 # 0 THEN Append(letters, ChX) ELSE letters

\* det, normalised into 0..25.
hill_det(m) ==
    LET d == CRem(m[1][1] * m[2][2] - m[1][2] * m[2][1], ALPHABET_SIZE)
    IN  IF d < 0 THEN d + ALPHABET_SIZE ELSE d

\* Variant: the test for a multiple of 13 is left out.
hill_det_rejected_no13(det) == det = 0 \/ det % 2 = 0

\* encrypt_hill's test of the key.
hill_det_rejected(det) == det = 0 \/ det % 2 = 0 \/ det % 13 = 0

\* One block: the two output characters for the residues (x1, x2).
hill_block(m, x1, x2) ==
    <<CRem(m[1][1] * x1 + m[1][2] * x2, ALPHABET_SIZE) + ChA,
      CRem(m[2][1] * x1 + m[2][2] * x2, ALPHABET_SIZE) + ChA>>

\* The loop over blocks of 2 of an even-length string s.
hill_blocks(m, s) ==
    [i \in 1..Len(s) |->
        IF i % 2 = 1 THEN hill_block(m, s[i] - ChA, s[i + 1] - ChA)[1]
        ELSE hill_block(m, s[i - 1] - ChA, s[i] - ChA)[2]]

\* Variant: the key is tested first, before processed_plaintext is allocated.
encrypt_hill_key_first(plaintext, m, avail) ==
    LET processed == processed_plaintext(plaintext)
        padded_len == Len(processed)
    IN  IF hill_det_rejected(hill_det(m)) THEN Failed("NonInvertibleKey", 0, 0, 0)
        ELSE IF avail < 1 THEN Failed("AllocationFailure", 0, 0, 0)
        ELSE IF avail < 2 THEN Failed("AllocationFailure", 1, 1, padded_len)
        ELSE Returned(hill_blocks(m, processed), 2, 1)

\* Variant: processed_plaintext is not freed when the key is rejected.
encrypt_hill_leak(plaintext, m, avail) ==
    LET processed == processed_plaintext(plaintext)
        padded_len == Len(processed)
    IN  IF avail < 1 THEN Failed("AllocationFailure", 0, 0, 0)
        ELSE IF hill_det_rejected(hill_det(m))
        THEN Failed("NonInvertibleKey", 1, 0, padded_len)
        ELSE IF avail < 2 THEN Failed("AllocationFailure", 1, 1, padded_len)
        ELSE Returned(hill_blocks(m, processed), 2, 1)

encrypt_hill(plaintext, m, avail) ==
    LET processed == processed_plaintext(plaintext)
        padded_len == Len(processed)
    IN  IF avail < 1 THEN Failed("AllocationFailure", 0, 0, 0)
        ELSE IF hill_det_rejected(hill_det(m))
        THEN Failed("NonInvertibleKey", 1, 1, padded_len)
        ELSE IF avail < 2 THEN Failed("AllocationFailure", 1, 1, padded_len)
        ELSE Returned(hill_blocks(m, processed), 2, 1)

\* inv_key: det_inv * adj(key) mod 26, negative entries raised by 26.
hill_inv_key(m, det_inv) ==
    LET norm(v) == IF v < 0 THEN v + ALPHABET_SIZE ELSE v
    IN  <<<<norm(CRem(m[2][2] * det_inv, ALPHABET_SIZE)),
            norm(CRem((-m[1][2]) * det_inv, ALPHABET_SIZE))>>,
          <<norm(CRem((-m[2][1]) * det_inv, ALPHABET_SIZE)),
            norm(CRem(m[1][1] * det_inv, ALPHABET_SIZE))>>>>

\* Variant: the key is tested before the length.
decrypt_hill_key_first(ciphertext, m, avail) ==
    LET det_inv == modInverse(hill_det(m), ALPHABET_SIZE)
    IN  IF det_inv = -1 THEN Failed("NonInvertibleKey", 0, 0, 0)
        ELSE IF Len(ciphertext) % 2 # 0 THEN Failed("OddLength", 0, 0, 0)
        ELSE IF avail < 1 THEN Failed("AllocationFailure", 0, 0, 0)
        ELSE Returned(hill_blocks(hill_inv_key(m, det_inv), ciphertext), 1, 0)

decrypt_hill(ciphertext, m, avail) ==
    LET det_inv == modInverse(hill_det(m), ALPHABET_SIZE)
    IN  IF Len(ciphertext) % 2 # 0 THEN Failed("OddLength", 0, 0, 0)
        ELSE IF det_inv = -1 THEN Failed("NonInvertibleKey", 0, 0, 0)
        ELSE IF avail < 1 THEN Failed("AllocationFailure", 0, 0, 0)
        ELSE Returned(hill_blocks(hill_inv_key(m, det_inv), ciphertext), 1, 0)

(***************************************************************************)
(* aes.cpp: calculate_ic.  The returned double is kept as the exact        *)
(* quotient num / den of the two integers the code divides (both far below *)
(* 2^53, so each is exact as a double).                                    *)
(***************************************************************************)
NoIc == [num |-> 0, den |-> 0]

RECURSIVE ic_counts(_, _, _)
\* The first loop from position i (from 1): counts[c - 'A']++ for every
\* character whose toupper is in 'A'..'Z'.
ic_counts(s, i, counts) ==
    IF i > Len(s) THEN counts
    ELSE LET c == toupper(s[i])
         IN  IF c >= ChA /\ c <= ChZ
             THEN ic_counts(s, i + 1, [counts EXCEPT ![c - ChA] = @ + 1])
             ELSE ic_counts(s, i + 1, counts)

RECURSIVE ic_sum(_, _)
\* The second loop from index i: ic += counts[i] * (counts[i] - 1).
ic_sum(counts, i) ==
    IF i >= ALPHABET_SIZE THEN 0
    ELSE counts[i] * (counts[i] - 1) + ic_sum(counts, i + 1)

RECURSIVE ic_total(_, _)
\* total_alpha_chars: incremented together with a count.
ic_total(counts, i) ==
    IF i >= ALPHABET_SIZE THEN 0 ELSE counts[i] + ic_total(counts, i + 1)

\* Variant: the divisor is N * N instead of N * (N - 1).
calculate_ic_nn(s) ==
    LET counts == ic_counts(s, 1, [i \in 0..(ALPHABET_SIZE - 1) |-> 0])
        total_alpha_chars == ic_total(counts, 0)
    IN  IF total_alpha_chars < 2 THEN [num |-> 0, den |-> 1]
        ELSE [num |-> ic_sum(counts, 0),
              den |-> total_alpha_chars * total_alpha_chars]

calculate_ic(s) ==
    LET counts == ic_counts(s, 1, [i \in 0..(ALPHABET_SIZE - 1) |-> 0])
        total_alpha_chars == ic_total(counts, 0)
    IN  IF total_alpha_chars < 2 THEN [num |-> 0, den |-> 1]
        ELSE [num |-> ic_sum(counts, 0),
              den |-> total_alpha_chars * (total_alpha_chars - 1)]

(***************************************************************************)
(* The inputs a caller supplies                                            *)
(***************************************************************************)
MaxLen == 3

MaxKeyLen == 3

MaxA == 60

MaxShift == 27

\* 'A' 'Z' 'b' 'z' '-'
Chars == {ChA, ChZ, 98, Chz, 45}

Texts == UNION {[1..n -> Chars] : n \in 0..MaxLen}

\* 'B' 'c' '-'
KeyChars == {66, 99, 45}

VigenereKeys == UNION {[1..n -> KeyChars] : n \in 0..MaxKeyLen}

ModInverseArgs == ((-MaxA)..MaxA) \cup {INT_MIN, INT_MAX}

Shifts == ((-MaxShift)..MaxShift) \cup {INT_MIN, INT_MAX}

AffineKeys == {-27, -25, -3, -1, 0, 1, 2, 3, 5, 13, 25, 26, 27, 29} \X {-27, -1, 0, 8, 30}

HillKeys == {<<<<m00, m01>>, <<m10, m11>>>> :
                m00 \in {-1, 1, 3, 13, 27}, m01 \in {-2, 0, 3},
                m10 \in {0, 2}, m11 \in {-1, 1, 2, 5}}

(***************************************************************************)
(* The programs: main calls encrypt, then decrypt on the encrypted string  *)
(* when encrypt returned one; decrypt is also callable on any string.      *)
(***************************************************************************)
InitOf(c, keys) ==
    /\ cipher = c
    /\ text \in Texts
    /\ key \in keys
    /\ pc = "start"
    /\ enc = NoCall
    /\ dec = NoCall
    /\ inverse = 0
    /\ ic = NoIc

Encrypted(r) ==
    /\ pc = "start"
    /\ enc' = r
    /\ pc' = "encrypted"
    /\ UNCHANGED <<cipher, text, key, dec, inverse, ic>>

\* The string decrypt is called on.
DecryptArg == IF pc = "start" THEN text ELSE enc.str

CanDecrypt == pc = "start" \/ (pc = "encrypted" /\ ~enc.null)

Decrypted(r) ==
    /\ dec' = r
    /\ pc' = IF pc = "start" THEN "decryptedInput" ELSE "decrypted"
    /\ UNCHANGED <<cipher, text, key, enc, inverse, ic>>

InitModInverse ==
    /\ cipher = "modInverse"
    /\ text = <<>>
    /\ key \in ModInverseArgs
    /\ pc = "start"
    /\ enc = NoCall
    /\ dec = NoCall
    /\ inverse = 0
    /\ ic = NoIc

ModInverseCall ==
    /\ cipher = "modInverse"
    /\ pc = "start"
    /\ inverse' = modInverse(key, ALPHABET_SIZE)
    /\ pc' = "done"
    /\ UNCHANGED <<cipher, text, key, enc, dec, ic>>

InitCesar == InitOf("cesar", Shifts)

CesarEncrypt ==
    /\ cipher = "cesar"
    /\ \E avail \in 0..1 : Encrypted(encrypt_cesar(text, key, avail))

CesarDecrypt ==
    /\ cipher = "cesar"
    /\ CanDecrypt
    /\ \E avail \in 0..1 : \E r \in decrypt_cesar(DecryptArg, key, avail) : Decrypted(r)

InitAffine == InitOf("affine", AffineKeys)

AffineEncrypt ==
    /\ cipher = "affine"
    /\ \E avail \in 0..1 : Encrypted(encrypt_affine(text, key[1], key[2], avail))

AffineDecrypt ==
    /\ cipher = "affine"
    /\ CanDecrypt
    /\ \E avail \in 0..1 : Decrypted(decrypt_affine(DecryptArg, key[1], key[2], avail))

InitVigenere == InitOf("vigenere", VigenereKeys)

VigenereEncrypt ==
    /\ cipher = "vigenere"
    /\ \E avail \in 0..1 : Encrypted(encrypt_vigenere(text, key, avail))

VigenereDecrypt ==
    /\ cipher = "vigenere"
    /\ CanDecrypt
    /\ \E avail \in 0..1 : Decrypted(decrypt_vigenere(DecryptArg, key, avail))

InitHill == InitOf("hill", HillKeys)

HillEncrypt ==
    /\ cipher = "hill"
    /\ \E avail \in 0..2 : Encrypted(encrypt_hill(text, key, avail))

HillDecrypt ==
    /\ cipher = "hill"
    /\ CanDecrypt
    /\ \E avail \in 0..1 : Decrypted(decrypt_hill(DecryptArg, key, avail))

InitIc ==
    /\ cipher = "ic"
    /\ text \in Texts
    /\ key = 0
    /\ pc = "start"
    /\ enc = NoCall
    /\ dec = NoCall
    /\ inverse = 0
    /\ ic = NoIc

CalculateIc ==
    /\ cipher = "ic"
    /\ pc = "start"
    /\ ic' = calculate_ic(text)
    /\ pc' = "done"
    /\ UNCHANGED <<cipher, text, key, enc, dec, inverse>>

NextModInverse == ModInverseCall

NextIc == CalculateIc

NextCesar == CesarEncrypt \/ CesarDecrypt

NextAffine == AffineEncrypt \/ AffineDecrypt

NextVigenere == VigenereEncrypt \/ VigenereDecrypt

NextHill == HillEncrypt \/ HillDecrypt

SpecModInverse == InitModInverse /\ [][NextModInverse]_vars

SpecCesar == InitCesar /\ [][NextCesar]_vars

SpecAffine == InitAffine /\ [][NextAffine]_vars

SpecVigenere == InitVigenere /\ [][NextVigenere]_vars

SpecHill == InitHill /\ [][NextHill]_vars

SpecIc == InitIc /\ [][NextIc]_vars

Init == InitModInverse \/ InitCesar \/ InitAffine \/ InitVigenere \/ InitHill \/ InitIc

Next ==
    \/ ModInverseCall
    \/ CesarEncrypt
    \/ CesarDecrypt
    \/ AffineEncrypt
    \/ AffineDecrypt
    \/ VigenereEncrypt
    \/ VigenereDecrypt
    \/ HillEncrypt
    \/ HillDecrypt
    \/ CalculateIc

Spec == Init /\ [][Next]_vars

(***************************************************************************)
(* Vocabulary of the properties (mathematics, not C)                       *)
(***************************************************************************)
\* gcd(n, 26) = 1, for any integer n: n is odd and no multiple of 13.
Coprime26(n) == n % 2 # 0 /\ n % 13 # 0

IsLetter(c) == (c >= 65 /\ c <= 90) \/ (c >= 97 /\ c <= 122)

HasLetter(s) == \E i \in 1..Len(s) : IsLetter(s[i])

LetterCount(s) == Cardinality({i \in 1..Len(s) : IsLetter(s[i])})

\* The letters of s in order, in upper case, followed by one 'X' when odd in number.
PaddedUpperLetters(s) ==
    LET up(c)   == IF c >= 97 THEN c - 32 ELSE c
        letters == SelectSeq(s, IsLetter)
        upper   == [i \in 1..Len(letters) |-> up(letters[i])]
    IN  IF Len(upper) % 2 = 1 THEN upper \o <<88>> ELSE upper

\* A call that ran to its end: it was made, the allocator served it and no
\* overflow trap stopped the process inside it.
Ran(r) == r.err \notin {"NotCalled", "AllocationFailure", "Trap"}

Succeeded(r) == ~r.null /\ r.err = "None"

DecryptCalled == pc \in {"decrypted", "decryptedInput"}

\* The string the decrypt call of this state was given.
DecryptInput == IF pc = "decryptedInput" THEN text ELSE enc.str

\* The mathematical determinant of the Hill key.
KeyDet == key[1][1] * key[2][2] - key[1][2] * key[2][1]

(***************************************************************************)
(* Properties                                                              *)
(***************************************************************************)
\* C1: for every integer a, modInverse(a, 26) returns x in 1..25 with
\* (a * x) mod 26 = 1 when gcd(a, 26) = 1, and -1 when a shares a factor with 26.
C1_ModInverseContract ==
    (cipher = "modInverse" /\ pc = "done") =>
        IF Coprime26(key)
        THEN inverse \in 1..25 /\ ((key % 26) * inverse) % 26 = 1
        ELSE inverse = -1

\* C2: for every text, every a coprime with 26 and every b, affine encryption
\* succeeds and decrypting its result with the same key gives the text back.
C2_AffineRoundTrip ==
    (cipher = "affine" /\ Coprime26(key[1])) =>
        /\ (pc = "encrypted" /\ Ran(enc)) => Succeeded(enc)
        /\ (pc = "decrypted" /\ Ran(dec)) => (Succeeded(dec) /\ dec.str = text)

\* C3: for every text and every key with at least one letter (non-letters
\* anywhere in the key, letters of either case), Vigenere encryption succeeds
\* and decrypting its result with the same key gives the text back.
C3_VigenereRoundTrip ==
    (cipher = "vigenere" /\ HasLetter(key)) =>
        /\ (pc = "encrypted" /\ Ran(enc)) => Succeeded(enc)
        /\ (pc = "decrypted" /\ Ran(dec)) => (Succeeded(dec) /\ dec.str = text)

\* A round trip under the key "-cB" of a text with letters of both cases and a
\* non-letter, whose ciphertext differs from it.
C3_Witness ==
    /\ cipher = "vigenere"
    /\ pc = "decrypted"
    /\ key = <<45, 99, 66>>
    /\ text = <<ChZ, 45, 98>>
    /\ enc.str # text
    /\ dec.str = text

\* C4: for every text and every key matrix whose determinant is coprime with 26
\* (entries of any sign), Hill decryption of the encryption gives the upper-case
\* letters of the text, followed by one 'X' when they are odd in number.
C4_HillRoundTrip ==
    (cipher = "hill" /\ Coprime26(KeyDet)) =>
        /\ (pc = "encrypted" /\ Ran(enc)) => Succeeded(enc)
        /\ (pc = "decrypted" /\ Ran(dec)) =>
               (Succeeded(dec) /\ dec.str = PaddedUpperLetters(text))

\* C5: for every text and every int shift, Caesar encryption succeeds and
\* decrypting its result with the same shift gives the text back.
C5_CesarRoundTrip ==
    cipher = "cesar" =>
        /\ (pc = "encrypted" /\ Ran(enc)) => Succeeded(enc)
        /\ (pc = "decrypted" /\ Ran(dec)) => (Succeeded(dec) /\ dec.str = text)

\* C6 as stated: with a key that has no letter, Vigenere encryption and
\* decryption fail with InvalidKey whatever the text is.
C6_NoLetterKeyAlwaysFails ==
    (cipher = "vigenere" /\ ~HasLetter(key)) =>
        /\ (pc = "encrypted" /\ Ran(enc)) => enc.err = "InvalidKey"
        /\ (DecryptCalled /\ Ran(dec)) => dec.err = "InvalidKey"

\* C6 amended: with a key that has no letter, Vigenere encryption and decryption
\* fail with InvalidKey exactly when the text has a letter; a text without
\* letters (the empty text included) is returned unchanged.
C6_NoLetterKeyFailsOnLetters ==
    (cipher = "vigenere" /\ ~HasLetter(key)) =>
        /\ (pc = "encrypted" /\ Ran(enc)) =>
               IF HasLetter(text) THEN enc.err = "InvalidKey" /\ enc.null
               ELSE Succeeded(enc) /\ enc.str = text
        /\ (DecryptCalled /\ Ran(dec)) =>
               IF HasLetter(DecryptInput) THEN dec.err = "InvalidKey" /\ dec.null
               ELSE Succeeded(dec) /\ dec.str = DecryptInput

\* Decryption under the key "-" of a text whose letter comes second: InvalidKey.
C6_Witness ==
    /\ cipher = "vigenere"
    /\ pc = "decryptedInput"
    /\ key = <<45>>
    /\ text = <<45, 98>>
    /\ dec.err = "InvalidKey"

\* C7: affine encryption and decryption fail with InvalidKey if and only if
\* gcd(a, 26) # 1, whatever b and the text are.
C7_AffineInvalidKeyIffNotCoprime ==
    cipher = "affine" =>
        /\ (pc = "encrypted" /\ Ran(enc)) =>
               (enc.err = "InvalidKey" <=> ~Coprime26(key[1]))
        /\ (DecryptCalled /\ Ran(dec)) =>
               (dec.err = "InvalidKey" <=> ~Coprime26(key[1]))

\* C8: Hill encryption fails with NonInvertibleKey if and only if the
\* determinant mod 26 is 0, even or a multiple of 13, and Hill decryption of an
\* even-length string rejects exactly the same matrices.
C8_HillRejectsExactlyNonInvertible ==
    cipher = "hill" =>
        LET det == KeyDet % 26
            bad == det = 0 \/ det % 2 = 0 \/ det % 13 = 0
        IN  /\ (pc = "encrypted" /\ Ran(enc)) =>
                   (enc.err = "NonInvertibleKey" <=> bad)
            /\ (DecryptCalled /\ Ran(dec) /\ Len(DecryptInput) % 2 = 0) =>
                   (dec.err = "NonInvertibleKey" <=> bad)

\* Decryption of a 2-character string under {{13,0},{0,1}} (determinant 13).
C8_Witness ==
    /\ cipher = "hill"
    /\ pc = "decryptedInput"
    /\ Len(text) = 2
    /\ key = <<<<13, 0>>, <<0, 1>>>>
    /\ dec.err = "NonInvertibleKey"

\* C9 as stated: Hill decryption fails with OddLength exactly when the string
\* has an odd number of alphabetic characters.
C9_OddLengthCountsLetters ==
    (cipher = "hill" /\ DecryptCalled /\ Ran(dec)) =>
        (dec.err = "OddLength" <=> LetterCount(DecryptInput) % 2 = 1)

\* C9 amended: Hill decryption fails with OddLength exactly when the string has
\* an odd number of characters, letters or not, whatever the key is (the length
\* is tested before the key and before any allocation).
C9_OddLengthCountsCharacters ==
    (cipher = "hill" /\ DecryptCalled /\ dec.err # "NotCalled") =>
        (dec.err = "OddLength" <=> Len(DecryptInput) % 2 = 1)

\* Decryption of "A-Z" (two letters, three characters) under a key of
\* determinant 0.
C9_Witness ==
    /\ cipher = "hill"
    /\ pc = "decryptedInput"
    /\ text = <<ChA, 45, ChZ>>
    /\ key = <<<<1, 0>>, <<0, 2>>>>
    /\ Coprime26(KeyDet) = FALSE
    /\ dec.err = "OddLength"

\* C10: an Affine, Vigenere or Hill call that ends with an error returns NULL
\* (no string) and has freed every buffer it allocated.
C10_ErrorReturnsNothingAndLeaksNothing ==
    cipher \in {"affine", "vigenere", "hill"} =>
        \A r \in {enc, dec} :
            r.err \notin {"NotCalled", "None"} =>
                (r.null /\ r.str = <<>> /\ r.frees = r.mallocs)

\* Hill encryption rejects a key after it filled processed_plaintext.
C10_Witness ==
    /\ cipher = "hill"
    /\ pc = "encrypted"
    /\ enc.err = "NonInvertibleKey"
    /\ enc.mallocs = 1
    /\ enc.frees = 1
    /\ enc.work = 2

\* The number of letters of s that are the L-th letter of the alphabet (from 0),
\* in either case.
LetterN(s, L) ==
    Cardinality({i \in 1..Len(s) : s[i] = 65 + L \/ s[i] = 97 + L})

RECURSIVE SumOver(_, _)
\* The sum of f[L] over the letters L..25.
SumOver(f, L) == IF L > 25 THEN 0 ELSE f[L] + SumOver(f, L + 1)

\* C11: calculate_ic returns 0 when the text has N < 2 letters and otherwise
\* sum n_i (n_i - 1) / (N (N - 1)) over the case-folded letter counts n_i; the
\* value is in [0, 1], is exactly 1 for one letter repeated N >= 2 times and
\* exactly 0 when the letters are pairwise distinct.
C11_IndexOfCoincidence ==
    (cipher = "ic" /\ pc = "done") =>
        LET n == [L \in 0..25 |-> LetterN(text, L)]
            N == SumOver(n, 0)
            S == SumOver([L \in 0..25 |-> n[L] * (n[L] - 1)], 0)
        IN  /\ ic.den > 0
            /\ N < 2 => ic.num = 0
            /\ N >= 2 => ic.num * (N * (N - 1)) = S * ic.den
            /\ 0 <= ic.num /\ ic.num <= ic.den
            /\ (N >= 2 /\ \E L \in 0..25 : n[L] = N) => ic.num = ic.den
            /\ (\A L \in 0..25 : n[L] <= 1) => ic.num = 0

\* "Z-z": one letter twice, in both cases, around a non-letter; the value is 1.
C11_Witness ==
    /\ cipher = "ic"
    /\ pc = "done"
    /\ text = <<ChZ, 45, Chz>>
    /\ ic.num = 2
    /\ ic.den = 2

\* The shift values (0..25) of the letters of a key, in order, whatever their case.
KeyShifts(k) ==
    LET letters == SelectSeq(k, IsLetter)
    IN  [i \in 1..Len(letters) |->
            IF letters[i] <= 90 THEN letters[i] - 65 ELSE letters[i] - 97]

\* How many letters of s come before position p.
LettersBefore(s, p) == Cardinality({j \in 1..(p - 1) : IsLetter(s[j])})

\* The letter c moved sh places forward in its own case, cyclically.
Shifted(c, sh) ==
    IF c <= 90 THEN 65 + ((c - 65 + sh) % 26) ELSE 97 + ((c - 97 + sh) % 26)

\* C12: with a key of k >= 1 letters, Vigenere encryption shifts the i-th letter
\* of the text (from 0, letters only) by the value of the (i mod k)-th letter of
\* the key and keeps its case; non-letters of the text are copied and do not
\* advance the cursor; non-letters of the key and the case of its letters play
\* no part.
C12_VigenereShiftSequence ==
    (cipher = "vigenere" /\ pc = "encrypted" /\ Ran(enc) /\ HasLetter(key)) =>
        LET shifts == KeyShifts(key)
            k      == Len(shifts)
        IN  /\ Succeeded(enc)
            /\ Len(enc.str) = Len(text)
            /\ \A p \in 1..Len(text) :
                   enc.str[p] =
                       IF IsLetter(text[p])
                       THEN Shifted(text[p], shifts[(LettersBefore(text, p) % k) + 1])
                       ELSE text[p]

\* "bZA" under the key "-cB": shifts 2, 1 and, the key exhausted, 2 again.
C12_Witness ==
    /\ cipher = "vigenere"
    /\ pc = "encrypted"
    /\ key = <<45, 99, 66>>
    /\ text = <<98, ChZ, ChA>>
    /\ enc.str = <<100, 65, 67>>

\* C13: for every text and every key matrix Hill encryption accepts (entries of
\* any sign), the output is made of upper-case letters only and its length is the
\* number of letters of the text rounded up to the next even number.
C13_HillOutputUpperCaseEven ==
    (cipher = "hill" /\ pc = "encrypted" /\ Succeeded(enc)) =>
        /\ \A i \in 1..Len(enc.str) : enc.str[i] >= 65 /\ enc.str[i] <= 90
        /\ Len(enc.str) = LetterCount(text) + (LetterCount(text) % 2)

KeyErrors == {"InvalidKey", "NonInvertibleKey"}

\* How many characters of s come before its first letter.
LeadingNonLetters(s) ==
    Cardinality({p \in 1..Len(s) : \A j \in 1..p : ~IsLetter(s[j])})

\* C14 as stated: when an Affine, Vigenere or Hill call raises its key error,
\* it has allocated no buffer and has copied or transformed no character.
C14_KeyErrorBeforeAnyWork ==
    cipher \in {"affine", "vigenere", "hill"} =>
        \A r \in {enc, dec} :
            r.err \in KeyErrors => (r.mallocs = 0 /\ r.work = 0)

\* C14 amended: the key error comes before any allocation or copy in Affine
\* encryption and decryption and in Hill decryption only.  Hill encryption
\* raises it after allocating processed_plaintext and filling it with the padded
\* upper-case letters; Vigenere raises it at the first letter of the text, with
\* the output buffer allocated and the non-letters before that letter copied.
\* Each buffer is freed before the return.
C14_KeyErrorWorkDone ==
    /\ (cipher = "affine" /\ enc.err \in KeyErrors) =>
           (enc.mallocs = 0 /\ enc.work = 0)
    /\ (cipher = "affine" /\ dec.err \in KeyErrors) =>
           (dec.mallocs = 0 /\ dec.work = 0)
    /\ (cipher = "hill" /\ dec.err \in KeyErrors) =>
           (dec.mallocs = 0 /\ dec.work = 0)
    /\ (cipher = "hill" /\ enc.err \in KeyErrors) =>
           /\ enc.mallocs = 1
           /\ enc.frees = 1
           /\ enc.work = Len(PaddedUpperLetters(text))
    /\ (cipher = "vigenere" /\ enc.err \in KeyErrors) =>
           /\ enc.mallocs = 1
           /\ enc.frees = 1
           /\ enc.work = LeadingNonLetters(text)
    /\ (cipher = "vigenere" /\ dec.err \in KeyErrors) =>
           /\ dec.mallocs = 1
           /\ dec.frees = 1
           /\ dec.work = LeadingNonLetters(DecryptInput)

\* Vigenere encryption of "-Zb" under the key "-": InvalidKey at 'Z', after the
\* buffer was allocated and '-' copied into it.
C14_Witness ==
    /\ cipher = "vigenere"
    /\ pc = "encrypted"
    /\ key = <<45>>
    /\ text = <<45, ChZ, 98>>
    /\ enc.err = "InvalidKey"
    /\ enc.mallocs = 1
    /\ enc.work = 1

====
